---------------------------- MODULE Spec2Model ----------------------------
(***************************************************************************)
(* The load checks of src/check/load/index.ts: checkPageIsLoaded,          *)
(* checkPageFound, checkBasicContentPresence, checkTransientVisibility,    *)
(* checkNoCriticalLoadingIndicators and checkNoUnhandledNetworkFailures.   *)
(*                                                                         *)
(* A behaviour is one test: the caller invokes one check on a page (and a  *)
(* response), the check runs to its result, and the page goes on living    *)
(* (time passes, elements hide, waits settle, requests fail).  JavaScript  *)
(* runs each check to completion between two awaits, so every action is    *)
(* the code from one await to the next.                                    *)
(***************************************************************************)
EXTENDS Integers, Sequences, FiniteSets, TLC

VARIABLES
    fn,             \* the check the caller invoked, "none" before the call
    pc,             \* where the check is: idle, the await it sits on, done
    args,           \* the selectors / maxVisibleTime arguments as passed
    result,         \* the promise the check returned to the caller
    calls,          \* the page / response methods called so far, in order
    response,       \* what response.ok() and response.status() return
    readyState,     \* what page.evaluate(document.readyState) resolved to
    body,           \* what page.$eval("body", innerHTML) resolved to
    elements,       \* per selector: what page.locator gives and shows
    hiddenAt,       \* per selector: the time at which its element hid
    elapsed,        \* time since the check was called
    selectors,      \* the selector list checkTransientVisibility iterates
    timeout,        \* the timeout handed to every locator.waitFor
    waits,          \* per list index: the promise of locator.waitFor
    routed,         \* the "**/*.{css,js}" routing rule is on the page
    listening,      \* the requestfailed listener is on the page
    failedRequests, \* the listener's failedRequests array
    failedInRun,    \* history: requests that failed while the check ran
    failedLater,    \* history: requests that failed after it returned
    asserted        \* history: failedRequests.length read by the assertion

vars == <<fn, pc, args, result, calls, response, readyState, body, elements,
          hiddenAt, elapsed, selectors, timeout, waits, routed, listening,
          failedRequests, failedInRun, failedLater, asserted>>

---------------------------------------------------------------------------
(* Bounds of the model                                                     *)

MaxTime == 2        \* the clock, and maxVisibleTime, run over 0..MaxTime
MaxSelectors == 2   \* longest caller-supplied selector list
MaxBody == 3        \* longest body markup
MaxEvents == 2      \* requestfailed events the page emits

---------------------------------------------------------------------------
(* Primitives of the test framework as the checks use them                 *)

\* Number formatting of the values that appear in failure messages.
Show(n) ==
    CASE n = 0 -> "0" [] n = 1 -> "1" [] n = 2 -> "2" [] n = 3 -> "3"
      [] n = 4 -> "4" [] n = 5 -> "5"
      [] n = 200 -> "200" [] n = 204 -> "204" [] n = 404 -> "404"
      [] n = 500 -> "500"
      [] OTHER -> "number"

ShowBool(b) == IF b THEN "true" ELSE "false"

NoFailure == [matcher |-> "none", message |-> "", expected |-> "", received |-> ""]

Failure(matcher, message, expected, received) ==
    [matcher |-> matcher, message |-> message,
     expected |-> expected, received |-> received]

\* expect(received, message).toBe(expected)
ExpectToBe(received, expected, message) ==
    IF received = expected THEN NoFailure
    ELSE Failure("toBe", message, expected, received)

\* expect(received, message).not.toBe(expected)
ExpectNotToBe(received, expected, message) ==
    IF received # expected THEN NoFailure
    ELSE Failure("not.toBe", message, expected, received)

\* expect(received).toBeGreaterThan(expected)
ExpectToBeGreaterThan(received, expected) ==
    IF received > expected THEN NoFailure
    ELSE Failure("toBeGreaterThan", "", Show(expected), Show(received))

Pending == [status |-> "pending", failure |-> NoFailure]
Resolved == [status |-> "resolved", failure |-> NoFailure]
Rejected(f) == [status |-> "rejected", failure |-> f]

\* An async function's promise: rejected with what its body threw, else resolved.
AsyncReturn(thrown) ==
    IF thrown.matcher = "none" THEN Resolved ELSE Rejected(thrown)

\* The rejection of a framework wait whose own timeout elapsed.
TimeoutError(what) == Failure("timeout", what, "", "")

NoArgs == [selectors |-> [given |-> FALSE, value |-> <<>>],
           maxVisibleTime |-> [given |-> FALSE, value |-> 0]]

NoResponse == [ok |-> FALSE, status |-> 0]

---------------------------------------------------------------------------
(* checkPageFound                                                          *)

ResponseOkFailure(resp) ==
    ExpectToBe(ShowBool(resp.ok), "true", "Response is not OK")

ResponseNot404Failure(resp) ==
    ExpectNotToBe(Show(resp.status), "404", "Response status is 404")

ResponseIs200Failure(resp) ==
    ExpectToBe(Show(resp.status), "200", "Response status is not 200")

\* The three assertions in their order; the first one that fails throws, and
\* the response methods called up to there are the log.
PageFoundOrderSwapped(resp) ==
    IF ResponseOkFailure(resp).matcher # "none"
    THEN [thrown |-> ResponseOkFailure(resp), calls |-> <<"ok">>]
    ELSE IF ResponseIs200Failure(resp).matcher # "none"
    THEN [thrown |-> ResponseIs200Failure(resp), calls |-> <<"ok", "status">>]
    ELSE [thrown |-> ResponseNot404Failure(resp),
          calls |-> <<"ok", "status", "status">>]

PageFoundWithoutNot404(resp) ==
    IF ResponseOkFailure(resp).matcher # "none"
    THEN [thrown |-> ResponseOkFailure(resp), calls |-> <<"ok">>]
    ELSE [thrown |-> ResponseIs200Failure(resp), calls |-> <<"ok", "status">>]

PageFoundAssertions(resp) ==
    IF ResponseOkFailure(resp).matcher # "none"
    THEN [thrown |-> ResponseOkFailure(resp), calls |-> <<"ok">>]
    ELSE IF ResponseNot404Failure(resp).matcher # "none"
    THEN [thrown |-> ResponseNot404Failure(resp), calls |-> <<"ok", "status">>]
    ELSE [thrown |-> ResponseIs200Failure(resp),
          calls |-> <<"ok", "status", "status">>]

checkPageFound(resp) ==
    [result |-> AsyncReturn(PageFoundAssertions(resp).thrown),
     calls |-> PageFoundAssertions(resp).calls]

---------------------------------------------------------------------------
(* checkBasicContentPresence                                               *)

\* Characters of the body markup; the first four are white space to
\* String.prototype.trim, the others are not.
WhiteSpace == {" ", "\t", "\n", "nbsp"}
Chars == {" ", "\n", "a", "<"}

RECURSIVE TrimStart(_)
TrimStart(s) ==
    IF s = <<>> THEN s
    ELSE IF Head(s) \in WhiteSpace THEN TrimStart(Tail(s)) ELSE s

RECURSIVE TrimEnd(_)
TrimEnd(s) ==
    IF s = <<>> THEN s
    ELSE IF s[Len(s)] \in WhiteSpace THEN TrimEnd(SubSeq(s, 1, Len(s) - 1)) ELSE s

Trim(s) == TrimEnd(TrimStart(s))

ContentLengthUntrimmed(bodyContent) == Len(bodyContent)

ContentLength(bodyContent) == Len(Trim(bodyContent))

BasicContentFailure(bodyContent) ==
    ExpectToBeGreaterThan(ContentLength(bodyContent), 0)

---------------------------------------------------------------------------
(* checkPageIsLoaded                                                       *)

ReadyStates == {"loading", "interactive", "complete"}

ReadyStateExpectsInteractive(state) == ExpectToBe(state, "interactive", "")

ReadyStateFailure(state) == ExpectToBe(state, "complete", "")

---------------------------------------------------------------------------
(* checkTransientVisibility and checkNoCriticalLoadingIndicators           *)

DEFAULT_SPINNER_SELECTOR ==
    <<".spinner", ".loading-spinner", ".loading-indicator", ".ant-spin",
      ".fa-spinner", ".fas.fa-spinner", ".v-progress-circular",
      ".el-loading-spinner">>

DEFAULT_PROGRESS_BAR_SELECTOR ==
    <<".progress-bar", "[role='progressbar']", ".mat-progress-bar",
      ".MuiCircularProgress-root">>

DEFAULT_LOADING_SELECTORS ==
    DEFAULT_SPINNER_SELECTOR \o DEFAULT_PROGRESS_BAR_SELECTOR

Range(s) == {s[i] : i \in 1..Len(s)}

\* The selectors the page under test gives a locator for; for every other
\* selector its locator method returns undefined, as the stubbed page does.
PageSelectors == {".loading-spinner", ".progress-bar"}

\* The selectors a caller's own list is drawn from.
CallerSelectors == PageSelectors \cup {"#missing"}

AllSelectors == Range(DEFAULT_LOADING_SELECTORS) \cup CallerSelectors

\* What a selector stands for on the page:
\*   "undefined"  page.locator returns no locator
\*   "absent"     a locator that matches no element
\*   "visible"    a locator whose element is visible
\*   "hidden"     a locator whose element is hidden
ElementStates == {"undefined", "absent", "visible", "hidden"}

Pages ==
    {[s \in AllSelectors |-> IF s \in PageSelectors THEN shown[s] ELSE "undefined"] :
        shown \in [PageSelectors -> ElementStates]}

NoPage == [s \in AllSelectors |-> "undefined"]

\* page.locator(selector)
Locator(pg, selector) ==
    IF pg[selector] = "undefined" THEN "undefined" ELSE "locator"

\* One turn of the loop: the lookup, the skip of a null or undefined locator,
\* else expect(async () => { locator.waitFor(...) }).toPass(), not awaited:
\* the wait is started and nothing the loop does can throw.
TransientIterationThrowsOnMissing(acc, pg, selector, maxVisibleTime) ==
    IF acc.thrown.matcher # "none" THEN acc
    ELSE IF Locator(pg, selector) = "undefined"
    THEN [acc EXCEPT !.lookups = Append(@, selector),
                     !.waits = Append(@, "skipped"),
                     !.thrown = Failure("toPass", selector, "hidden", "undefined")]
    ELSE [acc EXCEPT !.lookups = Append(@, selector),
                     !.waits = Append(@, "pending")]

TransientIteration(acc, pg, selector, maxVisibleTime) ==
    IF acc.thrown.matcher # "none" THEN acc
    ELSE IF Locator(pg, selector) = "undefined"
    THEN [acc EXCEPT !.lookups = Append(@, selector),
                     !.waits = Append(@, "skipped")]
    ELSE [acc EXCEPT !.lookups = Append(@, selector),
                     !.waits = Append(@, "pending")]

RECURSIVE TransientLoop(_, _, _, _)
TransientLoop(acc, pg, sels, maxVisibleTime) ==
    IF sels = <<>> THEN acc
    ELSE TransientLoop(TransientIteration(acc, pg, Head(sels), maxVisibleTime),
                       pg, Tail(sels), maxVisibleTime)

\* The whole call: the loop has no await, so it runs to its end before the
\* caller gets the promise.  lookups are the page.locator calls in order,
\* waits the waitFor promise of each list index, timeout what each was given.
checkTransientVisibility(pg, sels, maxVisibleTime) ==
    LET acc == TransientLoop([lookups |-> <<>>, waits |-> <<>>, thrown |-> NoFailure],
                             pg, sels, maxVisibleTime)
    IN  [result |-> AsyncReturn(acc.thrown),
         lookups |-> acc.lookups,
         waits |-> acc.waits,
         timeout |-> maxVisibleTime]

\* The default parameters, then the call of checkTransientVisibility, whose
\* promise is neither awaited nor returned.
NoCriticalLoadingIndicatorsSpinnersOnly(pg, a) ==
    LET inner == checkTransientVisibility(
                    pg,
                    IF a.selectors.given THEN a.selectors.value
                                         ELSE DEFAULT_SPINNER_SELECTOR,
                    IF a.maxVisibleTime.given THEN a.maxVisibleTime.value ELSE 0)
    IN  [inner EXCEPT !.result = Resolved]

checkNoCriticalLoadingIndicators(pg, a) ==
    LET inner == checkTransientVisibility(
                    pg,
                    IF a.selectors.given THEN a.selectors.value
                                         ELSE DEFAULT_LOADING_SELECTORS,
                    IF a.maxVisibleTime.given THEN a.maxVisibleTime.value ELSE 0)
    IN  [inner EXCEPT !.result = Resolved]

RECURSIVE SeqsUpTo(_, _)
SeqsUpTo(S, n) ==
    IF n = 0 THEN {<<>>}
    ELSE SeqsUpTo(S, n - 1) \cup
         {Append(q, x) : q \in {r \in SeqsUpTo(S, n - 1) : Len(r) = n - 1}, x \in S}

SelectorLists == SeqsUpTo(CallerSelectors, MaxSelectors)

---------------------------------------------------------------------------
(* checkNoUnhandledNetworkFailures                                         *)

ResourceTypes == {"stylesheet", "script", "image"}

\* The requestfailed listener: it keeps stylesheet and script requests.
RequestFailedListener(failed, resourceType) ==
    IF resourceType = "stylesheet" \/ resourceType = "script"
    THEN Append(failed, resourceType)
    ELSE failed

NetworkFailureExpectsOne(failed) == ExpectToBe(Show(Len(failed)), "1", "")

\* expect(failedRequests.length).toBe(0)
NetworkFailureAssertion(failed) == ExpectToBe(Show(Len(failed)), "0", "")

---------------------------------------------------------------------------
(* The state machine                                                       *)

Init ==
    /\ fn = "none"
    /\ pc = "idle"
    /\ args = NoArgs
    /\ result = Pending
    /\ calls = <<>>
    /\ response = NoResponse
    /\ readyState = ""
    /\ body = <<>>
    /\ elements = NoPage
    /\ hiddenAt = [s \in AllSelectors |-> 0]
    /\ elapsed = 0
    /\ selectors = <<>>
    /\ timeout = 0
    /\ waits = <<>>
    /\ routed = FALSE
    /\ listening = FALSE
    /\ failedRequests = <<>>
    /\ failedInRun = <<>>
    /\ failedLater = <<>>
    /\ asserted = -1

pageVars == <<elements, hiddenAt, elapsed, selectors, timeout, waits>>
networkVars == <<routed, listening, failedRequests, failedInRun, failedLater, asserted>>
inputVars == <<response, readyState, body>>

(* ---- checkPageIsLoaded ---- *)

\* The call runs up to the first await: waitForLoadState("domcontentloaded").
CallPageIsLoaded ==
    /\ pc = "idle"
    /\ fn' = "checkPageIsLoaded"
    /\ calls' = <<"waitForLoadState:domcontentloaded">>
    /\ pc' = "domcontentloaded"
    /\ UNCHANGED <<args, result, inputVars, pageVars, networkVars>>

\* The first wait resolves: on to waitForLoadState("load").
DomContentLoaded ==
    /\ fn = "checkPageIsLoaded" /\ pc = "domcontentloaded"
    /\ calls' = Append(calls, "waitForLoadState:load")
    /\ pc' = "load"
    /\ UNCHANGED <<fn, args, result, inputVars, pageVars, networkVars>>

\* A lifecycle wait rejects with the framework's timeout: the await throws.
LoadStateTimesOut ==
    /\ fn = "checkPageIsLoaded" /\ pc \in {"domcontentloaded", "load"}
    /\ result' = AsyncReturn(TimeoutError(pc))
    /\ pc' = "done"
    /\ UNCHANGED <<fn, args, calls, inputVars, pageVars, networkVars>>

\* The second wait resolves: on to page.evaluate(() => document.readyState).
Loaded ==
    /\ fn = "checkPageIsLoaded" /\ pc = "load"
    /\ calls' = Append(calls, "evaluate:readyState")
    /\ pc' = "evaluate"
    /\ UNCHANGED <<fn, args, result, inputVars, pageVars, networkVars>>

\* The evaluation resolves with the ready-state, which the assertion compares.
ReadyStateEvaluated ==
    /\ fn = "checkPageIsLoaded" /\ pc = "evaluate"
    /\ \E state \in ReadyStates :
         /\ readyState' = state
         /\ result' = AsyncReturn(ReadyStateFailure(state))
    /\ pc' = "done"
    /\ UNCHANGED <<fn, args, calls, response, body, pageVars, networkVars>>

(* ---- checkPageFound ---- *)

Statuses == {200, 204, 404, 500}

CallPageFound ==
    /\ pc = "idle"
    /\ fn' = "checkPageFound"
    /\ \E ok \in BOOLEAN, status \in Statuses :
         /\ response' = [ok |-> ok, status |-> status]
         /\ result' = checkPageFound(response').result
         /\ calls' = checkPageFound(response').calls
    /\ pc' = "done"
    /\ UNCHANGED <<args, readyState, body, pageVars, networkVars>>

(* ---- checkBasicContentPresence ---- *)

\* The call runs up to the await of page.$eval("body", ...).
CallBasicContentPresence ==
    /\ pc = "idle"
    /\ fn' = "checkBasicContentPresence"
    /\ calls' = <<"$eval:body">>
    /\ pc' = "$eval"
    /\ UNCHANGED <<args, result, inputVars, pageVars, networkVars>>

\* The evaluation resolves with the body's innerHTML.
BodyEvaluated ==
    /\ fn = "checkBasicContentPresence" /\ pc = "$eval"
    /\ \E bodyContent \in SeqsUpTo(Chars, MaxBody) :
         /\ body' = bodyContent
         /\ result' = AsyncReturn(BasicContentFailure(bodyContent))
    /\ pc' = "done"
    /\ UNCHANGED <<fn, args, calls, response, readyState, pageVars, networkVars>>

(* ---- checkTransientVisibility, checkNoCriticalLoadingIndicators ---- *)

CallTransientVisibility ==
    /\ pc = "idle"
    /\ fn' = "checkTransientVisibility"
    /\ \E pg \in Pages, sels \in SelectorLists, maxVisibleTime \in 0..MaxTime :
         LET run == checkTransientVisibility(pg, sels, maxVisibleTime) IN
         /\ elements' = pg
         /\ args' = [selectors |-> [given |-> TRUE, value |-> sels],
                     maxVisibleTime |-> [given |-> TRUE, value |-> maxVisibleTime]]
         /\ selectors' = sels
         /\ calls' = run.lookups
         /\ waits' = run.waits
         /\ timeout' = run.timeout
         /\ result' = run.result
    /\ pc' = "done"
    /\ UNCHANGED <<hiddenAt, elapsed, inputVars, networkVars>>

CallNoCriticalLoadingIndicators ==
    /\ pc = "idle"
    /\ fn' = "checkNoCriticalLoadingIndicators"
    /\ \E pg \in Pages,
          a \in [selectors : {NoArgs.selectors} \cup
                             {[given |-> TRUE, value |-> l] : l \in SelectorLists},
                 maxVisibleTime : {NoArgs.maxVisibleTime} \cup
                             {[given |-> TRUE, value |-> t] : t \in 0..MaxTime}] :
         LET run == checkNoCriticalLoadingIndicators(pg, a) IN
         /\ elements' = pg
         /\ args' = a
         /\ selectors' = IF a.selectors.given THEN a.selectors.value
                                              ELSE DEFAULT_LOADING_SELECTORS
         /\ calls' = run.lookups
         /\ waits' = run.waits
         /\ timeout' = run.timeout
         /\ result' = run.result
    /\ pc' = "done"
    /\ UNCHANGED <<hiddenAt, elapsed, inputVars, networkVars>>

Transient == fn \in {"checkTransientVisibility", "checkNoCriticalLoadingIndicators"}

\* Time passes on the page.
Tick ==
    /\ Transient /\ pc = "done"
    /\ elapsed < MaxTime
    /\ elapsed' = elapsed + 1
    /\ UNCHANGED <<fn, pc, args, result, calls, inputVars, elements, hiddenAt,
                   selectors, timeout, waits, networkVars>>

\* A visible loading indicator disappears.
Hide(s) ==
    /\ Transient /\ pc = "done"
    /\ elements[s] = "visible"
    /\ elements' = [elements EXCEPT ![s] = "hidden"]
    /\ hiddenAt' = [hiddenAt EXCEPT ![s] = elapsed]
    /\ UNCHANGED <<fn, pc, args, result, calls, inputVars, elapsed,
                   selectors, timeout, waits, networkVars>>

\* locator.waitFor({state: "hidden", timeout}) resolves once no element is
\* visible; a timeout of 0 is the framework's "no timeout".
WaitForResolves(i) ==
    /\ Transient /\ pc = "done"
    /\ waits[i] = "pending"
    /\ \/ elements[selectors[i]] = "absent"
       \/ /\ elements[selectors[i]] = "hidden"
          /\ timeout = 0 \/ hiddenAt[selectors[i]] <= timeout
    /\ waits' = [waits EXCEPT ![i] = "resolved"]
    /\ UNCHANGED <<fn, pc, args, result, calls, inputVars, elements, hiddenAt,
                   elapsed, selectors, timeout, networkVars>>

\* ... and rejects when the element is still visible as the timeout elapses.
\* Nothing holds that promise: the rejection reaches no one.
WaitForRejects(i) ==
    /\ Transient /\ pc = "done"
    /\ waits[i] = "pending"
    /\ timeout > 0 /\ elapsed >= timeout
    /\ \/ elements[selectors[i]] = "visible"
       \/ elements[selectors[i]] = "hidden" /\ hiddenAt[selectors[i]] > timeout
    /\ waits' = [waits EXCEPT ![i] = "rejected"]
    /\ UNCHANGED <<fn, pc, args, result, calls, inputVars, elements, hiddenAt,
                   elapsed, selectors, timeout, networkVars>>

(* ---- checkNoUnhandledNetworkFailures ---- *)

\* The call runs up to the await of page.route("**/*.{css,js}", ...).
CallNoUnhandledNetworkFailures ==
    /\ pc = "idle"
    /\ fn' = "checkNoUnhandledNetworkFailures"
    /\ calls' = <<"route">>
    /\ routed' = TRUE
    /\ pc' = "route"
    /\ UNCHANGED <<args, result, inputVars, pageVars, listening, failedRequests,
                   failedInRun, failedLater, asserted>>

\* page.route resolves; the rest runs without an await: the empty array, the
\* registration of the listener, and the assertion on the array's length.
RouteInstalled ==
    /\ fn = "checkNoUnhandledNetworkFailures" /\ pc = "route"
    /\ calls' = Append(calls, "on:requestfailed")
    /\ listening' = TRUE
    /\ failedRequests' = <<>>
    /\ asserted' = Len(failedRequests')
    /\ result' = AsyncReturn(NetworkFailureAssertion(failedRequests'))
    /\ pc' = "done"
    /\ UNCHANGED <<fn, args, inputVars, pageVars, routed, failedInRun, failedLater>>

\* A request of the page fails: the page emits requestfailed to its listeners.
RequestFailed(resourceType) ==
    /\ fn = "checkNoUnhandledNetworkFailures"
    /\ Len(failedInRun) + Len(failedLater) < MaxEvents
    /\ failedRequests' = IF listening
                         THEN RequestFailedListener(failedRequests, resourceType)
                         ELSE failedRequests
    /\ IF pc = "done"
       THEN failedLater' = Append(failedLater, resourceType) /\ UNCHANGED failedInRun
       ELSE failedInRun' = Append(failedInRun, resourceType) /\ UNCHANGED failedLater
    /\ UNCHANGED <<fn, pc, args, result, calls, inputVars, pageVars, routed,
                   listening, asserted>>

Next ==
    \/ CallPageIsLoaded
    \/ DomContentLoaded
    \/ LoadStateTimesOut
    \/ Loaded
    \/ ReadyStateEvaluated
    \/ CallPageFound
    \/ CallBasicContentPresence
    \/ BodyEvaluated
    \/ CallTransientVisibility
    \/ CallNoCriticalLoadingIndicators
    \/ Tick
    \/ \E s \in PageSelectors : Hide(s)
    \/ \E i \in DOMAIN waits : WaitForResolves(i)
    \/ \E i \in DOMAIN waits : WaitForRejects(i)
    \/ CallNoUnhandledNetworkFailures
    \/ RouteInstalled
    \/ \E resourceType \in ResourceTypes : RequestFailed(resourceType)

Spec == Init /\ [][Next]_vars

---------------------------------------------------------------------------
(* Properties                                                              *)

Waiting == DOMAIN waits

\* The element of list index i is still visible past the timeout.
VisiblePastTimeout(i) ==
    /\ waits[i] # "skipped"
    /\ elapsed > timeout
    /\ \/ elements[selectors[i]] = "visible"
       \/ elements[selectors[i]] = "hidden" /\ hiddenAt[selectors[i]] > timeout

\* The selector has no element, or its element was hidden from the start or
\* hid no later than the timeout.
HiddenInTime(s) ==
    \/ elements[s] \in {"undefined", "absent"}
    \/ elements[s] = "hidden" /\ hiddenAt[s] <= timeout

\* C1: checkTransientVisibility rejects whenever some selector's element is
\* still visible once maxVisibleTime has elapsed, and whenever the wait of a
\* single selector has failed, whatever the other selectors do.
C1_FailsWhenStillVisible ==
    (/\ fn = "checkTransientVisibility" /\ pc = "done"
     /\ \E i \in Waiting : VisiblePastTimeout(i) \/ waits[i] = "rejected")
        => result.status = "rejected"

\* C4: checkTransientVisibility has resolved only when no selector's wait is
\* still pending.
C4_ResolvesAfterEveryWaitSettled ==
    (fn = "checkTransientVisibility" /\ result.status = "resolved")
        => \A i \in Waiting : waits[i] # "pending"

\* C7: checkTransientVisibility succeeds whenever every selector of the list
\* has no element, or an element hidden from the start, or one that hid at a
\* time T <= maxVisibleTime.
C7_SucceedsWhenHiddenInTime ==
    (/\ fn = "checkTransientVisibility" /\ pc = "done"
     /\ \A i \in DOMAIN selectors : HiddenInTime(selectors[i]))
        => result.status = "resolved"

C7_Witness ==
    /\ fn = "checkTransientVisibility" /\ pc = "done"
    /\ result.status = "resolved"
    /\ \A i \in DOMAIN selectors : HiddenInTime(selectors[i])
    /\ \E i \in DOMAIN selectors : elements[selectors[i]] = "undefined"
    /\ \E i \in DOMAIN selectors :
          /\ elements[selectors[i]] = "hidden"
          /\ hiddenAt[selectors[i]] >= 1
          /\ waits[i] = "resolved"

\* C5: checkNoCriticalLoadingIndicators called with a page alone does what
\* checkTransientVisibility does with that page, DEFAULT_LOADING_SELECTORS
\* and maxVisibleTime 0: the same locator lookups in the same order, the same
\* waits started with the same timeout, the same promise state for the caller.
C5_DefaultsAreTransientVisibility ==
    (/\ fn = "checkNoCriticalLoadingIndicators" /\ pc = "done"
     /\ ~args.selectors.given /\ ~args.maxVisibleTime.given)
        => LET tv == checkTransientVisibility(elements, DEFAULT_LOADING_SELECTORS, 0)
           IN  /\ calls = tv.lookups
               /\ result = tv.result
               /\ timeout = tv.timeout
               /\ DOMAIN waits = DOMAIN tv.waits
               /\ \A i \in DOMAIN waits :
                     (waits[i] = "skipped") <=> (tv.waits[i] = "skipped")

C5_Witness ==
    /\ fn = "checkNoCriticalLoadingIndicators" /\ pc = "done"
    /\ ~args.selectors.given /\ ~args.maxVisibleTime.given
    /\ calls = DEFAULT_LOADING_SELECTORS
    /\ elements[".loading-spinner"] = "visible"
    /\ elements[".progress-bar"] = "hidden"
    /\ waits[2] = "pending" /\ waits[9] = "resolved"
    /\ result.status = "resolved"

C9_ContentIffNonWhiteSpace ==
    (fn = "checkBasicContentPresence" /\ pc = "done") =>
        (result.status = "resolved" <=> \E i \in DOMAIN body : body[i] \notin WhiteSpace)

C9_Witness ==
    /\ fn = "checkBasicContentPresence" /\ pc = "done"
    /\ body = <<" ", "\n", " ">>
    /\ result = Rejected(Failure("toBeGreaterThan", "", "0", "0"))

\* C6: checkPageIsLoaded waits for "domcontentloaded", then for "load", and
\* reads document.readyState only once both waits have resolved; it succeeds
\* iff the value read is "complete", otherwise fails with expected "complete"
\* and the value read as received; when a lifecycle wait rejects, the check
\* fails and the ready-state is never read.
C6_PageIsLoadedOrder ==
    fn = "checkPageIsLoaded" =>
        /\ pc = "domcontentloaded" => calls = <<"waitForLoadState:domcontentloaded">>
        /\ pc = "load" =>
              calls = <<"waitForLoadState:domcontentloaded", "waitForLoadState:load">>
        /\ pc = "evaluate" =>
              calls = <<"waitForLoadState:domcontentloaded", "waitForLoadState:load",
                        "evaluate:readyState">>
        /\ pc # "done" => result.status = "pending" /\ readyState = ""
        /\ (pc = "done" /\ result.failure.matcher = "timeout") =>
              /\ result.status = "rejected"
              /\ readyState = ""
              /\ "evaluate:readyState" \notin Range(calls)
        /\ (pc = "done" /\ result.failure.matcher # "timeout") =>
              /\ calls = <<"waitForLoadState:domcontentloaded", "waitForLoadState:load",
                           "evaluate:readyState">>
              /\ readyState \in ReadyStates
              /\ result.status = "resolved" <=> readyState = "complete"
              /\ readyState # "complete" =>
                    result = Rejected(Failure("toBe", "", "complete", readyState))

C6_Witness ==
    /\ fn = "checkPageIsLoaded" /\ pc = "done"
    /\ readyState = "interactive"
    /\ result = Rejected(Failure("toBe", "", "complete", "interactive"))

ScriptsAndStyles(failed) ==
    {i \in DOMAIN failed : failed[i] \in {"stylesheet", "script"}}

\* C10: the outcome of checkNoUnhandledNetworkFailures is the one the count
\* assertion gave: success iff the array it read was empty; no requestfailed
\* event delivered after the assertion changes it, and the listener and the
\* routing rule are still on the page after the check has returned.
C10_OutcomeFixedAtAssertion ==
    (fn = "checkNoUnhandledNetworkFailures" /\ pc = "done") =>
        /\ asserted >= 0
        /\ result.status = "resolved" <=> asserted = 0
        /\ result.status = "rejected" =>
              result.failure = Failure("toBe", "", "0", Show(asserted))
        /\ listening /\ routed
        /\ Len(failedRequests) = Cardinality(ScriptsAndStyles(failedLater))

C10_Witness ==
    /\ fn = "checkNoUnhandledNetworkFailures" /\ pc = "done"
    /\ result.status = "resolved"
    /\ failedLater = <<"image", "script">>
    /\ failedRequests = <<"script">>
    /\ listening /\ routed

\* C2: checkNoUnhandledNetworkFailures succeeds when no stylesheet or script
\* request failed while it observed the page, also when the only failed
\* request was an image, and fails with a count of 1 when exactly one script
\* request failed.
C2_FailsOnOneScriptFailure ==
    (fn = "checkNoUnhandledNetworkFailures" /\ pc = "done") =>
        /\ ScriptsAndStyles(failedInRun) = {} => result.status = "resolved"
        /\ (Cardinality(ScriptsAndStyles(failedInRun)) = 1
              /\ "script" \in Range(failedInRun)) =>
              result = Rejected(Failure("toBe", "", "0", "1"))

==========================================================================
